---- MODULE Spec2Model ----
(***************************************************************************)
(* Process lifecycle orchestrator of actionhero (core/src/classes/         *)
(* process.ts): discovery of initializers, the registry, the three         *)
(* priority-ordered phase lists, the initialize/start/stop/restart state   *)
(* machine and the fatalError escalation.                                  *)
(*                                                                         *)
(* The process is single threaded.  A chain is one sequence of awaits: a   *)
(* stack of suspended async functions.  Chain 1 carries the caller's       *)
(* serialized API calls; further chains are promises nobody awaits (the    *)
(* fatalError calls made inside the forEach of initialize, a second stop() *)
(* signal).  An action resumes one chain and runs it, synchronously, to    *)
(* its next real suspension: an initializer method or a timer.             *)
(***************************************************************************)
EXTENDS Integers, Sequences, FiniteSets, TLC

\* ------------------------------------------------------------------ bounds
NumFiles == 2
SchedFiles == 3
MaxPrio == 2
MaxCalls == 3

\* ------------------------------------------------------------- JS values
True == "true"
False == "false"
Undefined == "undefined"

Names == {"a", "b"}
Kinds == {"ok", "invalid", "throws", "empty"}
PluginNames == {"p"}
Paths == {"/plugins/ok", "/plugins/missing"}
ExistingPaths == {"/plugins/ok"}
Prios == (0 - 1)..MaxPrio

VARIABLES
  files,              \* what discovery finds on disk, in discovery order
  shifts,             \* whether asyncWaterfall consumes the list it runs
  running, initialized, shuttingDown, bootTime, startCount,
  initializers,       \* the registry: name -> instance
  loadInitializers, startInitializers, stopInitializers,
  plugins,
  chains,             \* the stacks of suspended async functions
  exited, exitCode,   \* process.exit
  trace,              \* what each chain has executed and logged so far
  builds,             \* number of runs of the forEach of initialize
  calls               \* number of API calls made so far

vars == <<files, shifts, running, initialized, shuttingDown, bootTime,
          startCount, initializers, loadInitializers, startInitializers,
          stopInitializers, plugins, chains, exited, exitCode, trace,
          builds, calls>>

\* The whole state as one record, so that the functions of process.ts are
\* operators from state to state.
State ==
  [files |-> files, shifts |-> shifts, running |-> running,
   initialized |-> initialized, shuttingDown |-> shuttingDown,
   bootTime |-> bootTime, startCount |-> startCount,
   initializers |-> initializers, loadInitializers |-> loadInitializers,
   startInitializers |-> startInitializers,
   stopInitializers |-> stopInitializers, plugins |-> plugins,
   chains |-> chains, exited |-> exited, exitCode |-> exitCode,
   trace |-> trace, builds |-> builds, calls |-> calls]

Becomes(m) ==
  /\ files' = m.files
  /\ shifts' = m.shifts
  /\ running' = m.running
  /\ initialized' = m.initialized
  /\ shuttingDown' = m.shuttingDown
  /\ bootTime' = m.bootTime
  /\ startCount' = m.startCount
  /\ initializers' = m.initializers
  /\ loadInitializers' = m.loadInitializers
  /\ startInitializers' = m.startInitializers
  /\ stopInitializers' = m.stopInitializers
  /\ plugins' = m.plugins
  /\ chains' = m.chains
  /\ exited' = m.exited
  /\ exitCode' = m.exitCode
  /\ trace' = m.trace
  /\ builds' = m.builds
  /\ calls' = m.calls

\* ------------------------------------------------------------ small data
\* An initializer instance is the object built from file idx by build gen.
Instance(gen, idx) == [gen |-> gen, idx |-> idx]

\* A step of a phase list: the wrapper around one instance's method, or the
\* closure start() / stop() pushes at the end of its list.
InitStep(gen, idx) == [k |-> "initializer", gen |-> gen, idx |-> idx]
StartTerminal == [k |-> "startTerminal", gen |-> 0, idx |-> 0]
StopTerminal == [k |-> "stopTerminal", gen |-> 0, idx |-> 0]
NoJob == [k |-> "none", gen |-> 0, idx |-> 0]

\* An entry of the trace.
Ev(e) == [ev |-> e, gen |-> 0, idx |-> 0, msg |-> <<>>]
EvOf(e, s) == [ev |-> e, gen |-> s.gen, idx |-> s.idx, msg |-> <<>>]
EvMsg(e, msgs) == [ev |-> e, gen |-> 0, idx |-> 0, msg |-> msgs]
Log(m, t, e) == [m EXCEPT !.trace[t] = Append(@, e)]

\* Error values: an Error object, an array of them, or nothing.
Err(text, about) == [kind |-> "error", msgs |-> <<[text |-> text, about |-> about]>>]
NoErr == [kind |-> "none", msgs |-> <<>>]
Truthy(e) == e.kind # "none"
IsArray(e) == e.kind = "array"

\* --------------------------------------------------------- the scheduler
sortNumberDescending(a, b) == b - a

sortNumber(a, b) == a - b

\* Array.prototype.sort with a comparator, as an insertion sort.
RECURSIVE InsertKey(_, _)
InsertKey(sorted, k) ==
  IF sorted = <<>> THEN <<k>>
  ELSE IF sortNumber(k, Head(sorted)) < 0 THEN <<k>> \o sorted
  ELSE <<Head(sorted)>> \o InsertKey(Tail(sorted), k)

RECURSIVE SortKeys(_)
SortKeys(keys) ==
  IF keys = {} THEN <<>>
  ELSE LET k == CHOOSE x \in keys : TRUE
       IN InsertKey(SortKeys(keys \ {k}), k)

RECURSIVE ConcatBuckets(_, _)
ConcatBuckets(collection, keys) ==
  IF keys = <<>> THEN <<>>
  ELSE collection[Head(keys)] \o ConcatBuckets(collection, Tail(keys))

flattenOrderedInitializer(collection) ==
  ConcatBuckets(collection, SortKeys(DOMAIN collection))

\* rankings[p] === undefined ? rankings[p] = [] (lines 205-213)
EnsureBucket(rankings, p) ==
  IF p \in DOMAIN rankings THEN rankings
  ELSE [q \in DOMAIN rankings \cup {p} |->
          IF q = p THEN <<>> ELSE rankings[q]]

InPhaseFromZero(priority) == priority >= 0

\* if (priority > 0) rankings[priority].push(fn) (lines 215-227)
InPhase(priority) == priority > 0

Rank(rankings, p, step) ==
  LET r == EnsureBucket(rankings, p)
  IN IF InPhase(p) THEN [r EXCEPT ![p] = Append(@, step)] ELSE r

EmptyRankings == [p \in {} |-> <<>>]

\* ------------------------------------------------------------ the chains
\* A frame of asyncWaterfall holds the array it was called with.  That is the
\* array of the process (held false) until initialize() assigns a new one to
\* the field: from then on the frame is the only holder of the old array.
Frame(fn, pc, arg) ==
  [fn |-> fn, pc |-> pc, arg |-> arg, i |-> 1, job |-> NoJob,
   held |-> FALSE, jobs |-> <<>>]

Top(m, t) == m.chains[t][Len(m.chains[t])]
Push(m, t, frame) == [m EXCEPT !.chains[t] = Append(@, frame)]
Pop(m, t) == [m EXCEPT !.chains[t] = SubSeq(@, 1, Len(@) - 1)]
SetTop(m, t, frame) == [m EXCEPT !.chains[t] = [@ EXCEPT ![Len(@)] = frame]]
SetPc(m, t, pc) == SetTop(m, t, [Top(m, t) EXCEPT !.pc = pc])

ListOf(m, list) ==
  CASE list = "load" -> m.loadInitializers
    [] list = "start" -> m.startInitializers
    [] list = "stop" -> m.stopInitializers

SetList(m, list, value) ==
  CASE list = "load" -> [m EXCEPT !.loadInitializers = value]
    [] list = "start" -> [m EXCEPT !.startInitializers = value]
    [] list = "stop" -> [m EXCEPT !.stopInitializers = value]

DoneEv(list) ==
  CASE list = "load" -> "loaded"
    [] list = "start" -> "started"
    [] list = "stop" -> "stopped"

FailedEv(list) ==
  CASE list = "load" -> "load failed"
    [] list = "start" -> "start failed"
    [] list = "stop" -> "stop failed"

\* fs.existsSync(pluginPath)
existsSync(path) == path \in ExistingPaths

MissingPlugins(m) == {p \in DOMAIN m.plugins : ~existsSync(m.plugins[p])}

RECURSIVE Call(_, _, _, _, _), Return(_, _), Throw(_, _, _)
RECURSIVE asyncWaterfall(_, _), Invoke(_, _), LoadFiles(_, _, _, _)

StartBodyNotRunning(m, t) ==
  LET m1 == Log(m, t, Ev("writePidFile"))
      m2 == [m1 EXCEPT !.startInitializers = Append(@, StartTerminal)]
  IN Call(SetPc(m2, t, "waterfall"), t, "asyncWaterfall", "start", NoErr)

\* start(), lines 257-278: everything after the optional initialize().
StartBody(m, t) ==
  LET m1 == Log(m, t, Ev("writePidFile"))
      m2 == [m1 EXCEPT !.running = True,
                       !.startInitializers = Append(@, StartTerminal)]
  IN Call(SetPc(m2, t, "waterfall"), t, "asyncWaterfall", "start", NoErr)

RunStartTerminalNotCounting(m, t) ==
  LET m1 == [m EXCEPT !.bootTime = m.calls]
  IN IF m1.startCount = 0
     THEN Log(m1, t, Ev("Started"))
     ELSE Log(m1, t, Ev("Restarted"))

\* The closure start() pushes, lines 263-272.
RunStartTerminal(m, t) ==
  LET m1 == [m EXCEPT !.bootTime = m.calls]
  IN IF m1.startCount = 0
     THEN [Log(m1, t, Ev("Started")) EXCEPT !.startCount = @ + 1]
     ELSE Log(m1, t, Ev("Restarted"))

\* this.initializers = {}
EmptyRegistry == [n \in {} |-> Instance(0, 0)]

RunStopTerminalNotClearing(m, t) ==
  [Log(m, t, Ev("Stopped")) EXCEPT
     !.shuttingDown = Undefined,
     !.initializers = EmptyRegistry]

RunStopTerminalKeepingRegistry(m, t) ==
  [Log(Log(m, t, Ev("clearPidFile")), t, Ev("Stopped")) EXCEPT
     !.shuttingDown = Undefined]

\* The closure stop() pushes, lines 292-300, up to its sleep.
RunStopTerminal(m, t) ==
  [Log(Log(m, t, Ev("clearPidFile")), t, Ev("Stopped")) EXCEPT
     !.shuttingDown = Undefined,
     !.initializers = EmptyRegistry]

StopAfterSleepSkippingList(m, t) == Return(m, t)

\* stop(), lines 298-300 of the first branch once the sleep has elapsed.
StopAfterSleep(m, t) ==
  LET m1 == [m EXCEPT !.stopInitializers = Append(@, StopTerminal)]
  IN Call(SetPc(m1, t, "waterfall"), t, "asyncWaterfall", "stop", NoErr)

\* A fatalError(error, file) nobody awaits, lines 124 and 145: it runs now,
\* as far as its first timer, on a chain of its own.
FatalDetached(m, error) ==
  LET t == Len(m.chains) + 1
  IN Call([m EXCEPT !.chains = Append(@, <<>>), !.trace = Append(@, <<>>)],
          t, "fatalError", "file", error)

LoadFileReplacing(acc, i, gen, t) ==
  LET m == acc.m
      f == m.files[i]
      inst == Instance(gen, i)
      step == InitStep(gen, i)
      ranked(mm) == [acc EXCEPT
                       !.m = mm,
                       !.load = Rank(@, f.loadPriority, step),
                       !.start = Rank(@, f.startPriority, step),
                       !.stop = Rank(@, f.stopPriority, step)]
  IN CASE f.kind = "empty" ->
            [acc EXCEPT !.m = FatalDetached(m, Err("no exported initializers found", f.name))]
       [] f.kind = "throws" ->
            [acc EXCEPT !.m = FatalDetached(m, Err("constructor threw", f.name)),
                        !.thrown = Err("TypeError: loadPriority of undefined", f.name)]
       [] f.name \in DOMAIN m.initializers ->
            ranked([Log(m, t, EvOf("warning", inst)) EXCEPT
                      !.initializers[f.name] = inst])
       [] f.kind = "invalid" ->
            ranked(FatalDetached(m, Err("validate failed", f.name)))
       [] OTHER ->
            ranked([m EXCEPT !.initializers =
                      [n \in DOMAIN @ \cup {f.name} |->
                         IF n = f.name THEN inst ELSE @[n]]])

LoadFileSkippingCollision(acc, i, gen, t) ==
  LET m == acc.m
      f == m.files[i]
      inst == Instance(gen, i)
      step == InitStep(gen, i)
      ranked(mm) == [acc EXCEPT
                       !.m = mm,
                       !.load = Rank(@, f.loadPriority, step),
                       !.start = Rank(@, f.startPriority, step),
                       !.stop = Rank(@, f.stopPriority, step)]
  IN CASE f.kind = "empty" ->
            [acc EXCEPT !.m = FatalDetached(m, Err("no exported initializers found", f.name))]
       [] f.kind = "throws" ->
            [acc EXCEPT !.m = FatalDetached(m, Err("constructor threw", f.name)),
                        !.thrown = Err("TypeError: loadPriority of undefined", f.name)]
       [] f.name \in DOMAIN m.initializers ->
            [acc EXCEPT !.m = Log(m, t, EvOf("warning", inst))]
       [] f.kind = "invalid" ->
            ranked(FatalDetached(m, Err("validate failed", f.name)))
       [] OTHER ->
            ranked([m EXCEPT !.initializers =
                      [n \in DOMAIN @ \cup {f.name} |->
                         IF n = f.name THEN inst ELSE @[n]]])

\* The body of the forEach for file i, lines 112-228.  acc carries the state,
\* the three rankings and the exception that left the callback, if any.
LoadFile(acc, i, gen, t) ==
  LET m == acc.m
      f == m.files[i]
      inst == Instance(gen, i)
      step == InitStep(gen, i)
      ranked(mm) == [acc EXCEPT
                       !.m = mm,
                       !.load = Rank(@, f.loadPriority, step),
                       !.start = Rank(@, f.startPriority, step),
                       !.stop = Rank(@, f.stopPriority, step)]
  IN CASE f.kind = "empty" ->
            [acc EXCEPT !.m = FatalDetached(m, Err("no exported initializers found", f.name))]
       [] f.kind = "throws" ->
            [acc EXCEPT !.m = FatalDetached(m, Err("constructor threw", f.name)),
                        !.thrown = Err("TypeError: loadPriority of undefined", f.name)]
       [] f.name \in DOMAIN m.initializers ->
            ranked(Log(m, t, EvOf("warning", inst)))
       [] f.kind = "invalid" ->
            ranked(FatalDetached(m, Err("validate failed", f.name)))
       [] OTHER ->
            ranked([m EXCEPT !.initializers =
                      [n \in DOMAIN @ \cup {f.name} |->
                         IF n = f.name THEN inst ELSE @[n]]])

LoadFiles(acc, i, gen, t) ==
  IF i > Len(acc.m.files) \/ Truthy(acc.thrown) THEN acc
  ELSE LoadFiles(LoadFile(acc, i, gen, t), i + 1, gen, t)

\* The assignments of lines 232-240 leave every waterfall that is under way
\* with the array it was called with.
OrphanedFrame(m, fr) ==
  IF fr.fn = "asyncWaterfall" /\ ~fr.held
  THEN [fr EXCEPT !.held = TRUE, !.jobs = ListOf(m, fr.arg)]
  ELSE fr

RECURSIVE OrphanedFrames(_, _), OrphanedChains(_, _)
OrphanedFrames(m, frames) ==
  IF frames = <<>> THEN <<>>
  ELSE <<OrphanedFrame(m, Head(frames))>> \o OrphanedFrames(m, Tail(frames))

OrphanedChains(m, chs) ==
  IF chs = <<>> THEN <<>>
  ELSE <<OrphanedFrames(m, Head(chs))>> \o OrphanedChains(m, Tail(chs))

Orphaned(m) == [m EXCEPT !.chains = OrphanedChains(m, @)]

\* initialize(), lines 70-243, as far as the first load step.
InitializeBody(m, t) ==
  IF MissingPlugins(m) # {}
  THEN LET p == CHOOSE q \in MissingPlugins(m) : TRUE
       IN Throw(m, t, Err("plugin path does not exist", m.plugins[p]))
  ELSE LET gen == m.builds + 1
           acc == LoadFiles([m |-> [m EXCEPT !.builds = gen],
                             load |-> EmptyRankings, start |-> EmptyRankings,
                             stop |-> EmptyRankings, thrown |-> NoErr], 1, gen, t)
       IN IF Truthy(acc.thrown) THEN Throw(acc.m, t, acc.thrown)
          ELSE LET m1 == [Orphaned(acc.m) EXCEPT
                            !.loadInitializers = flattenOrderedInitializer(acc.load),
                            !.startInitializers = flattenOrderedInitializer(acc.start),
                            !.stopInitializers = flattenOrderedInitializer(acc.stop)]
               IN Call(SetPc(m1, t, "waterfall"), t, "asyncWaterfall", "load", NoErr)

StopBodyUnguarded(m, t) ==
  SetPc(Log([m EXCEPT !.shuttingDown = True, !.running = False,
                      !.initialized = False], t, Ev("stopping process")),
        t, "sleep")

\* stop(), lines 283-313, as far as its first sleep.
StopBody(m, t) ==
  IF m.running = True
  THEN SetPc(Log([m EXCEPT !.shuttingDown = True, !.running = False,
                           !.initialized = False], t, Ev("stopping process")),
             t, "sleep")
  ELSE IF m.shuttingDown = True
  THEN Return(Log(m, t, Ev("stop ignored")), t)
  ELSE Return(Log(m, t, Ev("error: not running")), t)

\* fatalError(errors, type), lines 326-337.
FatalEv(type) ==
  CASE type = "initialize" -> "fatalError(initialize)"
    [] type = "start" -> "fatalError(start)"
    [] type = "stop" -> "fatalError(stop)"
    [] OTHER -> "fatalError(file)"

FatalErrorBody(m, t, errors, type) ==
  LET errs == IF Truthy(errors) /\ ~IsArray(errors)
              THEN [kind |-> "array", msgs |-> errors.msgs]
              ELSE errors
  IN IF Truthy(errs)
     THEN LET m1 == Log(Log(m, t, Ev(FatalEv(type))), t, EvMsg("emerg", errs.msgs))
          IN Call(SetPc(m1, t, "stop"), t, "stop", "", NoErr)
     ELSE Return(m, t)

RestartBodyAlwaysStops(m, t) ==
  Call(SetPc(m, t, "stop"), t, "stop", "", NoErr)

\* restart(), lines 315-323, as far as its first suspension.
RestartBody(m, t) ==
  IF m.running = True
  THEN Call(SetPc(m, t, "stop"), t, "stop", "", NoErr)
  ELSE Call(SetPc(m, t, "start"), t, "start", "", NoErr)

\* Calling an async function: its frame goes on the chain and its body runs
\* up to its first real suspension.
Call(m, t, fn, arg, err) ==
  LET m1 == Push(m, t, Frame(fn, "body", arg))
  IN CASE fn = "initialize" -> InitializeBody(m1, t)
       [] fn = "start" ->
            IF m1.initialized # True
            THEN Call(SetPc(m1, t, "initialize"), t, "initialize", "", NoErr)
            ELSE StartBody(m1, t)
       [] fn = "stop" -> StopBody(m1, t)
       [] fn = "restart" -> RestartBody(m1, t)
       [] fn = "fatalError" -> FatalErrorBody(m1, t, err, arg)
       [] fn = "asyncWaterfall" -> asyncWaterfall(m1, t)

\* The function on top of chain t returns: its caller goes on after the await.
Return(m, t) ==
  LET m1 == Pop(m, t)
  IN IF m1.chains[t] = <<>>
     THEN IF t = 1 THEN Log(m1, t, Ev("resolved")) ELSE m1
     ELSE LET fr == Top(m1, t)
          IN CASE fr.fn = "initialize" /\ fr.pc = "waterfall" ->
                    Return([m1 EXCEPT !.initialized = True], t)
               [] fr.fn = "start" /\ fr.pc = "initialize" -> StartBody(m1, t)
               [] fr.fn = "restart" /\ fr.pc = "stop" ->
                    Call(SetPc(m1, t, "start"), t, "start", "", NoErr)
               [] fr.fn = "fatalError" /\ fr.pc = "stop" -> SetPc(m1, t, "sleep")
               [] OTHER -> Return(m1, t)

ThrowUncaught(m, t, e) ==
  LET m1 == Pop(m, t)
  IN IF m1.chains[t] = <<>>
     THEN IF t = 1 THEN Log(m1, t, EvMsg("rejected", e.msgs)) ELSE m1
     ELSE Throw(m1, t, e)

\* The function on top of chain t rejects with error e: the caller's catch
\* runs if the await is inside a try, otherwise the caller rejects too.
Throw(m, t, e) ==
  LET m1 == Pop(m, t)
  IN IF m1.chains[t] = <<>>
     THEN IF t = 1 THEN Log(m1, t, EvMsg("rejected", e.msgs)) ELSE m1
     ELSE LET fr == Top(m1, t)
          IN IF fr.pc = "waterfall" /\ fr.fn \in {"initialize", "start", "stop"}
             THEN Call(SetPc(m1, t, "fatal"), t, "fatalError", fr.fn, e)
             ELSE Throw(m1, t, e)

\* utils.asyncWaterfall(jobs): run the jobs one after the other; the frame on
\* top of chain t is the waterfall, its arg names the list.
asyncWaterfall(m, t) ==
  LET fr == Top(m, t)
      jobs == IF fr.held THEN fr.jobs ELSE ListOf(m, fr.arg)
  IN IF m.shifts
     THEN IF jobs = <<>> THEN Return(m, t)
          ELSE IF fr.held
          THEN Invoke(SetTop(m, t, [fr EXCEPT !.job = Head(jobs), !.jobs = Tail(jobs)]), t)
          ELSE Invoke(SetTop(SetList(m, fr.arg, Tail(jobs)), t,
                             [fr EXCEPT !.job = Head(jobs)]), t)
     ELSE IF fr.i > Len(jobs) THEN Return(m, t)
          ELSE Invoke(SetTop(m, t, [fr EXCEPT !.job = jobs[fr.i], !.i = @ + 1]), t)

\* The waterfall calls its current job.
Invoke(m, t) ==
  LET fr == Top(m, t)
  IN CASE fr.job.k = "initializer" ->
            SetPc(Log(m, t, EvOf(fr.arg, fr.job)), t, "job")
       [] fr.job.k = "startTerminal" -> asyncWaterfall(RunStartTerminal(m, t), t)
       [] fr.job.k = "stopTerminal" -> SetPc(RunStopTerminal(m, t), t, "jobSleep")

\* ------------------------------------------------------------- the inputs
FileSpace(names, prios, kinds) ==
  [name : names, loadPriority : prios, startPriority : prios,
   stopPriority : prios, kind : kinds]

File(name, l, s, p, kind) ==
  [name |-> name, loadPriority |-> l, startPriority |-> s,
   stopPriority |-> p, kind |-> kind]

\* The initializer classes the lifecycle is exercised with.
Catalogue ==
  {File("a", 1, 1, 1, "ok"), File("b", 2, 1, 2, "ok"),
   File("a", 1, 2, 0, "ok"), File("b", 1, 1, 1, "invalid"),
   File("b", 1, 1, 1, "throws"), File("b", 1, 1, 1, "empty")}

\* new Process(), lines 33-59.
Constructed ==
  /\ running = Undefined
  /\ initialized = Undefined
  /\ shuttingDown = Undefined
  /\ bootTime = 0
  /\ startCount = 0
  /\ initializers = EmptyRegistry
  /\ loadInitializers = <<>>
  /\ startInitializers = <<>>
  /\ stopInitializers = <<>>
  /\ plugins = [p \in {} |-> ""]
  /\ chains = << <<>> >>
  /\ exited = FALSE
  /\ exitCode = 0
  /\ trace = << <<>> >>
  /\ builds = 0
  /\ calls = 0

Init ==
  /\ files \in [1..NumFiles -> Catalogue]
  /\ shifts \in BOOLEAN
  /\ Constructed

\* ------------------------------------------------------------ the actions
Idle == ~exited /\ chains[1] = <<>> /\ calls < MaxCalls

EnteredFrom(m, fn, ev) ==
  Call(Log([m EXCEPT !.calls = @ + 1], 1, Ev(ev)), 1, fn, "", NoErr)

Entered(fn, ev) == EnteredFrom(State, fn, ev)

CallInitialize == Idle /\ Becomes(Entered("initialize", "initialize()"))
CallStart == Idle /\ Becomes(Entered("start", "start()"))
CallStop == Idle /\ Becomes(Entered("stop", "stop()"))
CallRestart == Idle /\ Becomes(Entered("restart", "restart()"))

\* addPlugin(name, object), lines 66-68.
AddPlugin(name, path) ==
  /\ Idle
  /\ builds = 0
  /\ Becomes([State EXCEPT
       !.calls = @ + 1,
       !.plugins = [p \in DOMAIN @ \cup {name} |-> IF p = name THEN path ELSE @[p]]])

StopInProgress(m) ==
  \E t \in 1..Len(m.chains) : \E k \in 1..Len(m.chains[t]) : m.chains[t][k].fn = "stop"

\* A second stop() while one is in progress (a second SIGTERM): a promise
\* nobody awaits.  Where it settles at once its chain is gone again and what
\* it logged is part of the caller's history.
Signalled(m) ==
  LET t == Len(m.chains) + 1
      m1 == Call(Log([m EXCEPT !.calls = @ + 1,
                               !.chains = Append(@, <<>>),
                               !.trace = Append(@, <<>>)],
                     t, Ev("stop() again")), t, "stop", "", NoErr)
  IN IF m1.chains[t] = <<>>
     THEN [m1 EXCEPT !.chains = SubSeq(@, 1, t - 1),
                     !.trace = [SubSeq(@, 1, t - 1) EXCEPT ![1] = @ \o m1.trace[t]]]
     ELSE m1

StopSignal ==
  /\ ~exited /\ calls < MaxCalls
  /\ StopInProgress(State)
  /\ Becomes(Signalled(State))

SuspendedAt(m, t, fn, pc) ==
  /\ ~m.exited
  /\ m.chains[t] # <<>>
  /\ Top(m, t).fn = fn
  /\ Top(m, t).pc = pc

\* What each timer or initializer method does to the state when it settles.
Completes(m, t) ==
  LET fr == Top(m, t)
  IN asyncWaterfall(Log(m, t, EvOf(DoneEv(fr.arg), fr.job)), t)

Rejects(m, t) ==
  LET fr == Top(m, t)
  IN Throw(Log(m, t, EvOf(FailedEv(fr.arg), fr.job)), t, Err("step rejected", fr.arg))

Exits(m, t) == Log([m EXCEPT !.exited = TRUE, !.exitCode = 1], t, Ev("exit"))

\* The initializer method a waterfall is waiting for resolves.
StepCompletes(t) ==
  /\ SuspendedAt(State, t, "asyncWaterfall", "job")
  /\ Becomes(Completes(State, t))

\* ... or rejects: the wrapper logs and rethrows, the waterfall rejects.
StepRejects(t) ==
  /\ SuspendedAt(State, t, "asyncWaterfall", "job")
  /\ Becomes(Rejects(State, t))

\* The sleep(100) of stop() elapses.
StopSettles(t) ==
  /\ SuspendedAt(State, t, "stop", "sleep")
  /\ Becomes(StopAfterSleep(State, t))

\* The sleep(100) of the closure stop() pushed elapses.
StopTerminalEnds(t) ==
  /\ SuspendedAt(State, t, "asyncWaterfall", "jobSleep")
  /\ Becomes(asyncWaterfall(State, t))

\* The sleep(1000) of fatalError elapses: process.exit(1), lines 339-340.
Exit(t) ==
  /\ SuspendedAt(State, t, "fatalError", "sleep")
  /\ Becomes(Exits(State, t))

Next ==
  \/ CallInitialize
  \/ CallStart
  \/ CallStop
  \/ CallRestart
  \/ \E name \in PluginNames, path \in Paths : AddPlugin(name, path)
  \/ StopSignal
  \/ \E t \in 1..Len(chains) : StepCompletes(t)
  \/ \E t \in 1..Len(chains) : StepRejects(t)
  \/ \E t \in 1..Len(chains) : StopSettles(t)
  \/ \E t \in 1..Len(chains) : StopTerminalEnds(t)
  \/ \E t \in 1..Len(chains) : Exit(t)

Spec == Init /\ [][Next]_vars

\* ------------------------------------------- the scheduler on its own
\* Every assignment of priorities to SchedFiles valid initializers, and
\* initialize() as the only call.
SchedNames == <<"a", "b", "c", "d", "e">>

InitSched ==
  /\ files \in {[i \in 1..SchedFiles |->
                   File(SchedNames[i], p[i][1], p[i][2], p[i][3], "ok")] :
                p \in [1..SchedFiles -> Prios \X Prios \X Prios]}
  /\ shifts = TRUE
  /\ Constructed

NextSched == CallInitialize

SpecSched == InitSched /\ [][NextSched]_vars

\* ---------------------------------------------------------------- claims
Phases == {"load", "start", "stop"}

PriorityIn(phase, idx) ==
  CASE phase = "load" -> files[idx].loadPriority
    [] phase = "start" -> files[idx].startPriority
    [] phase = "stop" -> files[idx].stopPriority

\* The load list as initialize() built it: a consuming waterfall has already
\* taken the first job off by the time initialize() first suspends.
LoadAsBuilt ==
  IF shifts /\ chains[1] # <<>> /\ Top(State, 1).fn = "asyncWaterfall"
     /\ Top(State, 1).arg = "load" /\ Top(State, 1).pc = "job"
  THEN <<Top(State, 1).job>> \o loadInitializers
  ELSE loadInitializers

PhaseList(phase) ==
  CASE phase = "load" -> LoadAsBuilt
    [] phase = "start" -> startInitializers
    [] phase = "stop" -> stopInitializers

InitializerSteps(list) == SelectSeq(list, LAMBDA s : s.k = "initializer")

Indices(list) == [i \in 1..Len(list) |-> list[i].idx]

\* C1: each flattened phase list is non-decreasing in the priority of its
\* phase, and steps of equal priority are in discovery order.
C1_PriorityOrder ==
  \A phase \in Phases :
    LET L == InitializerSteps(PhaseList(phase))
    IN \A i, j \in 1..Len(L) :
         i < j =>
           \/ PriorityIn(phase, L[i].idx) < PriorityIn(phase, L[j].idx)
           \/ /\ PriorityIn(phase, L[i].idx) = PriorityIn(phase, L[j].idx)
              /\ L[i].idx < L[j].idx

\* A with loadPriority 1, B with 2, C with 1: the load list is [A, C, B].
C1_Witness ==
  /\ builds = 1
  /\ Len(files) >= 3
  /\ files[1].loadPriority = 1
  /\ files[2].loadPriority = 2
  /\ files[3].loadPriority = 1
  /\ SubSeq(Indices(LoadAsBuilt), 1, 3) = <<1, 3, 2>>

\* C2: once initialize() has built the lists, an initializer has a step in a
\* phase list exactly when its priority for that phase is positive, whatever
\* its priorities for the other two phases are.
C2_NonPositiveExcluded ==
  builds > 0 =>
    \A phase \in Phases : \A idx \in 1..Len(files) :
      (\E i \in 1..Len(PhaseList(phase)) :
         /\ PhaseList(phase)[i].k = "initializer"
         /\ PhaseList(phase)[i].idx = idx)
      <=> PriorityIn(phase, idx) > 0

\* An initializer out of the load list (priority 0) and out of the stop list
\* (negative priority) that is in the start list all the same.
C2_Witness ==
  /\ builds = 1
  /\ files[1].loadPriority = 0
  /\ files[1].startPriority > 0
  /\ files[1].stopPriority < 0
  /\ 1 \in {startInitializers[i].idx : i \in 1..Len(startInitializers)}
  /\ 1 \notin {LoadAsBuilt[i].idx : i \in 1..Len(LoadAsBuilt)}
  /\ 1 \notin {stopInitializers[i].idx : i \in 1..Len(stopInitializers)}

\* ------------------------------------------------------------ histories
\* What a step adds to the history of the caller's chain.
NewEvents == SubSeq(trace'[1], Len(trace[1]) + 1, Len(trace'[1]))

Positions(tr, evs) == {k \in 1..Len(tr) : tr[k].ev \in evs}

\* The forEach of initialize gets as far as file idx, and builds an instance
\* from it.
Reached(idx) == \A j \in 1..(idx - 1) : files[j].kind # "throws"
Instantiated(idx) == Reached(idx) /\ files[idx].kind \in {"ok", "invalid"}

\* File idx arrives at the registry under a name that is taken: by an entry
\* from before this build, or by an earlier file of this build.
Collides(idx) ==
  \/ files[idx].name \in DOMAIN initializers
  \/ \E j \in 1..(idx - 1) :
       files[j].name = files[idx].name /\ files[j].kind = "ok"

RegistryKept ==
  \/ initializers' = EmptyRegistry
  \/ \A n \in DOMAIN initializers :
       n \in DOMAIN initializers' /\ initializers'[n] = initializers[n]

CollisionsLogged ==
  builds' # builds =>
    \A idx \in 1..Len(files) :
      Instantiated(idx) =>
        ((\E k \in 1..Len(NewEvents) :
            NewEvents[k] = EvOf("warning", Instance(builds', idx)))
         <=> Collides(idx))

FirstRegistered ==
  \A n \in DOMAIN initializers :
    LET x == initializers[n]
    IN /\ x.gen \in 1..builds
       /\ files[x.idx].name = n
       /\ files[x.idx].kind = "ok"
       /\ \A j \in 1..(x.idx - 1) : ~(files[j].name = n /\ files[j].kind = "ok")

\* C3: a registry entry stays the instance first registered under its name
\* until the registry is emptied: no step replaces an entry, a build logs a
\* warning for exactly the instances that arrive under a taken name, and an
\* entry is the first valid instance of its name in the build that made it.
C3_FirstRegistrationKept ==
  [][RegistryKept /\ CollisionsLogged /\ FirstRegistered']_vars

\* initialize() twice without a stop(): the second instance of "a" is warned
\* about and the registry still holds the first.
C3_Witness ==
  /\ builds = 2
  /\ "a" \in DOMAIN initializers
  /\ initializers["a"] = Instance(1, 1)
  /\ \E k \in 1..Len(trace[1]) : trace[1][k] = EvOf("warning", Instance(2, 1))

\* A step that is a call of stop(): by the caller, or as a second signal
\* while another stop() is in progress.
StopCalled ==
  \/ NewEvents # <<>> /\ NewEvents[1].ev \in {"stop()", "stop() again"}
  \/ /\ Len(trace') > Len(trace)
     /\ trace'[Len(trace')] # <<>>
     /\ trace'[Len(trace')][1].ev = "stop() again"

\* What stop() logs when it finds the process not running, lines 307-311.
NotRunningEv == IF shuttingDown = True THEN "stop ignored" ELSE "error: not running"

StopIsNoOp ==
  (StopCalled /\ running # True) =>
    /\ UNCHANGED <<files, shifts, running, initialized, shuttingDown, bootTime,
                   startCount, initializers, loadInitializers,
                   startInitializers, stopInitializers, plugins, chains,
                   exited, exitCode, builds>>
    /\ Len(trace') = Len(trace)
    /\ \A t \in 2..Len(trace) : trace'[t] = trace[t]
    /\ NewEvents \in {<<Ev("stop()"), Ev(NotRunningEv), Ev("resolved")>>,
                      <<Ev("stop() again"), Ev(NotRunningEv)>>}

\* The part of the caller's history that belongs to the stop() which logged
\* "stopping process" at position k: up to the next one.
StopRun(k) ==
  LET later == {j \in Positions(trace[1], {"stopping process"}) : j > k}
      last == IF later = {} THEN Len(trace[1])
              ELSE (CHOOSE j \in later : \A i \in later : j <= i) - 1
  IN SubSeq(trace[1], k + 1, last)

OnlyTheCallerStops ==
  \A t \in 2..Len(trace) : Positions(trace[t], {"stopping process"}) = {}

StopListRunsOnce ==
  OnlyTheCallerStops =>
    \A k \in Positions(trace[1], {"stopping process"}) :
      LET run == StopRun(k)
          begun == Positions(run, {"stop"})
      IN /\ \A i, j \in begun : run[i].idx = run[j].idx => i = j
         /\ Cardinality(Positions(run, {"Stopped"})) <= 1
         /\ Positions(run, {"Stopped"}) # {} =>
              {run[i].idx : i \in begun} =
                {idx \in 1..Len(files) :
                   Instantiated(idx) /\ files[idx].stopPriority > 0}

\* C4: a stop() that finds running not true changes no flag, list or registry
\* entry, executes no step and does not end the process: it is ignored
\* (shuttingDown true; the history marks it "stop ignored") or logs the error
\* that the process is not running.  So however many stop() calls arrive,
\* each stop step of a stop executes once.
C4_StopWhenNotRunning == [][StopIsNoOp]_vars /\ []StopListRunsOnce

\* A second stop() arrived while the first was carrying out the stop list,
\* was ignored, and the first went on to finish.
C4_Witness ==
  \E i, j, k \in 1..Len(trace[1]) :
    /\ i < j /\ j < k
    /\ trace[1][i].ev = "stopping process"
    /\ trace[1][j].ev = "stop ignored"
    /\ trace[1][j - 1].ev = "stop() again"
    /\ trace[1][k].ev = "Stopped"
    /\ Positions(trace[1], {"stop"}) # {}

\* -------------------------------------------------- restart() and start()
CallEvents == {"initialize()", "start()", "stop()", "restart()"}

\* The part of the caller's history that belongs to the call logged at
\* position k: up to the next call.
CallRun(k) ==
  LET later == {j \in Positions(trace[1], CallEvents) : j > k}
      last == IF later = {} THEN Len(trace[1])
              ELSE (CHOOSE j \in later : \A i \in later : j <= i) - 1
  IN SubSeq(trace[1], k + 1, last)

\* restart() found the process not running and awaits its start(), line 321.
AwaitingStart(m) ==
  /\ m.chains[1] # <<>>
  /\ m.chains[1][1].fn = "restart"
  /\ m.chains[1][1].pc = "start"

\* The state m with the caller's last call read as start() where it was
\* restart(): the frame of restart() taken away, the call renamed.
AsStart(m) ==
  LET made == Positions(m.trace[1], CallEvents)
  IN IF made = {} THEN m
     ELSE LET k == CHOOSE j \in made : \A i \in made : i <= j
          IN [m EXCEPT
                !.chains[1] = IF AwaitingStart(m) THEN Tail(@) ELSE @,
                !.trace[1][k] = IF @.ev = "restart()" THEN Ev("start()") ELSE @]

Waiting(m, fn, pc) == {t \in 1..Len(m.chains) : SuspendedAt(m, t, fn, pc)}

\* Every state one settling timer, initializer method or stop signal away.
Settlings(m) ==
  {Completes(m, t) : t \in Waiting(m, "asyncWaterfall", "job")}
  \cup {Rejects(m, t) : t \in Waiting(m, "asyncWaterfall", "job")}
  \cup {StopAfterSleep(m, t) : t \in Waiting(m, "stop", "sleep")}
  \cup {asyncWaterfall(m, t) : t \in Waiting(m, "asyncWaterfall", "jobSleep")}
  \cup {Exits(m, t) : t \in Waiting(m, "fatalError", "sleep")}
  \cup (IF ~m.exited /\ m.calls < MaxCalls /\ StopInProgress(m)
        THEN {Signalled(m)} ELSE {})

\* From a state where running is not true restart() does what start() does,
\* and goes on doing so step for step until it settles.
RestartIsStart ==
  /\ (chains[1] = <<>> /\ running # True) =>
       AsStart(EnteredFrom(State, "restart", "restart()"))
         = EnteredFrom(State, "start", "start()")
  /\ AwaitingStart(State) =>
       {AsStart(x) : x \in Settlings(State)} = Settlings(AsStart(State))

\* The restart() calls that found the process not running.
RestartsNotRunning ==
  {k \in Positions(trace[1], {"restart()"}) :
     k = Len(trace[1]) \/ trace[1][k + 1].ev # "stopping process"}

NoStopStep(run) == Positions(run, {"stopping process", "stop", "Stopped"}) = {}

NoStopStepUnlessStartFailed(run) ==
  \A j \in Positions(run, {"stopping process", "stop", "Stopped"}) :
    \E i \in Positions(run, {"start failed"}) : i < j

\* C5 as stated: restart() while running is not true is start(), and no stop
\* step executes in it.
C5_AsStated ==
  /\ RestartIsStart
  /\ \A k \in RestartsNotRunning : NoStopStep(CallRun(k))

\* C5: restart() while running is not true is start() alone, to the same
\* steps, log and flags; it executes a stop step only where a start step
\* rejected and fatalError called stop(), as start() alone does.
C5_RestartNotRunningIsStart ==
  /\ RestartIsStart
  /\ \A k \in RestartsNotRunning : NoStopStepUnlessStartFailed(CallRun(k))

\* restart() on a process that is not running carried the start phase out.
C5_Witness ==
  \E k \in RestartsNotRunning :
    /\ Positions(CallRun(k), {"start"}) # {}
    /\ Positions(CallRun(k), {"Started"}) # {}
    /\ trace[1][Len(trace[1])].ev = "resolved"
    /\ running = True

\* ------------------------------------------------------ after a stop()
CallsMade == Positions(trace[1], CallEvents)

LastCall == CHOOSE k \in CallsMade : \A j \in CallsMade : j <= k

\* The call logged at position k was a stop() that found the process
\* running, ran the stop list to its end and resolved.
StopCompleted(k) ==
  LET run == CallRun(k)
  IN /\ trace[1][k].ev = "stop()"
     /\ Positions(run, {"stopping process"}) # {}
     /\ Positions(run, {"Stopped"}) # {}
     /\ run[Len(run)].ev = "resolved"

\* The call before the one logged at position k.
CallBefore(k) ==
  CHOOSE j \in CallsMade : j < k /\ \A i \in CallsMade : i < k => i <= j

DistinctNames ==
  \A i, j \in 1..Len(files) : files[i].name = files[j].name => i = j

AfterStop ==
  (CallsMade # {} /\ StopCompleted(LastCall)) =>
    /\ initializers = EmptyRegistry
    /\ running = False
    /\ initialized = False
    /\ shuttingDown = Undefined

InitializeAfterStop ==
  (/\ CallsMade # {}
   /\ trace[1][LastCall].ev = "initialize()"
   /\ \E j \in CallsMade : j < LastCall
   /\ StopCompleted(CallBefore(LastCall))
   /\ DistinctNames) =>
    /\ Positions(CallRun(LastCall), {"warning"}) = {}
    /\ \A idx \in 1..Len(files) :
         (Reached(idx) /\ files[idx].kind = "ok") =>
           /\ files[idx].name \in DOMAIN initializers
           /\ initializers[files[idx].name] = Instance(builds, idx)

\* C6: when a stop() from the running state has completed the registry is
\* empty, running and initialized are false and shuttingDown is unset; an
\* initialize() that follows, over pairwise distinct names, warns about no
\* name and registers every initializer it builds, the new instances.
C6_StopEmptiesRegistry == AfterStop /\ InitializeAfterStop

\* start(), stop(), initialize(): both initializers are registered again, as
\* instances of the second build.
C6_Witness ==
  /\ CallsMade # {}
  /\ trace[1][LastCall].ev = "initialize()"
  /\ \E j \in CallsMade : j < LastCall
  /\ StopCompleted(CallBefore(LastCall))
  /\ DistinctNames
  /\ builds = 2
  /\ DOMAIN initializers = {"a", "b"}
  /\ initializers["a"].gen = 2

\* ------------------------------------------------ Started and Restarted
\* The completion messages of the start phase, in the order logged.
Announced == SelectSeq(trace[1], LAMBDA e : e.ev \in {"Started", "Restarted"})

StartedOnce ==
  /\ startCount = (IF Announced = <<>> THEN 0 ELSE 1)
  /\ \A i \in 1..Len(Announced) :
       Announced[i].ev = (IF i = 1 THEN "Started" ELSE "Restarted")

\* A start() or restart() that got as far as the start list and resolved has
\* logged its completion message.
CompletedStartAnnounced ==
  \A k \in Positions(trace[1], {"start()", "restart()"}) :
    LET run == CallRun(k)
    IN (run # <<>> /\ run[Len(run)].ev = "resolved") =>
         \A w \in Positions(run, {"writePidFile"}) :
           \E a \in Positions(run, {"Started", "Restarted"}) : w < a

\* C7: the first start phase to complete logs Started and takes startCount
\* from 0 to 1; every later one logs Restarted and leaves it at 1; nothing,
\* stop() included, lowers it.
C7_StartedThenRestarted ==
  [](StartedOnce /\ CompletedStartAnnounced) /\ [][startCount' >= startCount]_vars

\* start(), stop(), start(): Started, Stopped, Restarted, startCount still 1.
C7_Witness ==
  /\ startCount = 1
  /\ \E i, j, k \in 1..Len(trace[1]) :
       /\ i < j /\ j < k
       /\ trace[1][i].ev = "Started"
       /\ trace[1][j].ev = "Stopped"
       /\ trace[1][k].ev = "Restarted"

\* ------------------------------------------------- a failing start step
StartFailures == Positions(trace[1], {"start failed"})

\* C8: when a start step rejects no later start step and no start closure
\* executes, fatalError logs the error as one of kind start, stop() is
\* attempted, and the call never settles: the way out is process.exit(1).
C8_StartFailureIsFatal ==
  \A k \in StartFailures :
    /\ Len(trace[1]) >= k + 3
    /\ trace[1][k + 1] = Ev("fatalError(start)")
    /\ trace[1][k + 2] = EvMsg("emerg", Err("step rejected", "start").msgs)
    /\ trace[1][k + 3].ev \in {"stopping process", "stop ignored", "error: not running"}
    /\ \A j \in (k + 1)..Len(trace[1]) :
         /\ trace[1][j].ev \notin {"start", "started", "Started", "Restarted",
                                   "writePidFile", "resolved", "rejected"}
         /\ trace[1][j].ev \notin CallEvents
         /\ trace[1][j].ev = "exit" => j > k + 3 /\ j = Len(trace[1])
    /\ exited => exitCode = 1
    /\ ~exited => \E i \in 1..Len(chains[1]) : chains[1][i].fn = "fatalError"

\* The first of two start steps rejected: the second never began, the stop
\* list ran and the process exited with code 1.
C8_Witness ==
  /\ StartFailures # {}
  /\ exited /\ exitCode = 1
  /\ trace[1][Len(trace[1])].ev = "exit"
  /\ Positions(trace[1], {"Stopped"}) # {}
  /\ \E idx \in 1..Len(files) :
       /\ Instantiated(idx) /\ files[idx].startPriority > 0
       /\ \A j \in Positions(trace[1], {"start"}) : trace[1][j].idx # idx

\* ------------------------------------------------- a missing plugin path
InitializesWithMissingPlugin ==
  /\ NewEvents # <<>>
  /\ NewEvents[1].ev = "initialize()"
  /\ MissingPlugins(State) # {}

FatalEvents ==
  {"fatalError(initialize)", "fatalError(start)", "fatalError(stop)", "fatalError(file)"}

\* C9: initialize() with a plugin whose path does not exist registers no
\* initializer and ends in fatalError: the error citing that path is logged
\* through it and stop() is attempted.
C9_MissingPluginIsFatal ==
  [][InitializesWithMissingPlugin =>
       /\ UNCHANGED <<initializers, builds>>
       /\ \E j \in 1..Len(NewEvents), p \in MissingPlugins(State) :
            /\ NewEvents[j].ev \in FatalEvents
            /\ j + 2 <= Len(NewEvents)
            /\ NewEvents[j + 1] =
                 EvMsg("emerg", Err("plugin path does not exist", plugins[p]).msgs)
            /\ NewEvents[j + 2].ev \in
                 {"stopping process", "stop ignored", "error: not running"}]_vars

\* -------------------------------------------------- one phase at a time
\* Position j of the caller's history comes after the completion of the step
\* of file idx in the phase whose completions are logged as done.
DoneBefore(tr, j, done, idx) ==
  \E i \in Positions(tr, {done}) : i < j /\ tr[i].idx = idx

LoadBeforeStart ==
  \A j \in Positions(trace[1], {"start"}) :
    \A idx \in 1..Len(files) :
      (Instantiated(idx) /\ files[idx].loadPriority > 0) =>
        \E i \in Positions(trace[1], {"loaded"}) :
          /\ i < j
          /\ trace[1][i].idx = idx
          /\ trace[1][i].gen = trace[1][j].gen

\* The restart() calls that found the process running.
RestartsRunning == Positions(trace[1], {"restart()"}) \ RestartsNotRunning

StopBeforeNewCycle ==
  \A k \in RestartsRunning :
    LET run == CallRun(k)
    IN \A j \in Positions(run, {"load", "start", "writePidFile", "warning"}) :
         /\ \E i \in Positions(run, {"Stopped"}) : i < j
         /\ \A idx \in 1..Len(files) :
              (Instantiated(idx) /\ files[idx].stopPriority > 0) =>
                DoneBefore(run, j, "stopped", idx)

FailedIn(g, idx) ==
  /\ Reached(idx)
  /\ \/ files[idx].kind \in {"empty", "throws"}
     \/ /\ files[idx].kind = "invalid"
        /\ \A k \in Positions(trace[1], {"warning"}) :
             ~(trace[1][k].gen = g /\ trace[1][k].idx = idx)

\* Build g has done something with file idx: registered it, warned about it,
\* given it a step in a list or run one of its steps.
LoadedIn(g, idx) ==
  \/ \E n \in DOMAIN initializers : initializers[n] = Instance(g, idx)
  \/ \E list \in Phases :
       \E i \in 1..Len(ListOf(State, list)) : ListOf(State, list)[i] = InitStep(g, idx)
  \/ \E t \in 1..Len(trace) : \E k \in 1..Len(trace[t]) :
       trace[t][k].gen = g /\ trace[t][k].idx = idx

\* C11: once a build has found a source unusable no later source is loaded
\* by it, no load step of it executes, and the call does not set initialized.
C11_FailureAbortsInitialize ==
  /\ [](\A g \in 1..builds : \A idx \in 1..Len(files) :
          FailedIn(g, idx) =>
            /\ \A k \in Positions(trace[1], {"load"}) : trace[1][k].gen # g
            /\ \A j \in (idx + 1)..Len(files) : ~LoadedIn(g, j))
  /\ [][(initialized' = True /\ initialized # True) =>
          \A idx \in 1..Len(files) : ~FailedIn(builds, idx)']_vars

\* ------------------------------------------------------ the running flag
\* The start phase that is current: what the caller's chain did since it last
\* wrote the PID file.
SinceWritePidFile ==
  LET w == Positions(trace[1], {"writePidFile"})
      last == CHOOSE k \in w : \A j \in w : j <= k
  IN SubSeq(trace[1], last + 1, Len(trace[1]))

\* C12 as stated: where running is true the start list of the current cycle
\* has run to its end and no step of it was rejected.
C12_AsStated ==
  running = True =>
    /\ Positions(trace[1], {"writePidFile"}) # {}
    /\ Positions(SinceWritePidFile, {"Started", "Restarted"}) # {}
    /\ Positions(SinceWritePidFile, {"start failed"}) = {}

RunningSetByStart ==
  /\ (running' = True /\ running # True) => Positions(NewEvents, {"writePidFile"}) # {}
  /\ Positions(NewEvents, {"writePidFile"}) # {} => running' = True

StartStepsAfterWritePidFile ==
  \A k \in CallsMade :
    LET run == CallRun(k)
    IN \A j \in Positions(run, {"start", "Started", "Restarted"}) :
         \E w \in Positions(run, {"writePidFile"}) : w < j

\* C12: running is set true at the beginning of the start phase: it becomes
\* true only in the step in which start() writes the PID file, every such
\* step sets it, and no start step or start closure runs before that.
C12_RunningSetBeforeStartList ==
  [][RunningSetByStart]_vars
  /\ [](StartStepsAfterWritePidFile
        /\ (running = True => Positions(trace[1], {"writePidFile"}) # {}))

\* running is true while the first start step is still under way.
C12_Witness ==
  /\ running = True
  /\ SuspendedAt(State, 1, "asyncWaterfall", "job")
  /\ Top(State, 1).arg = "start"
  /\ Positions(trace[1], {"started", "Started", "Restarted"}) = {}

\* --------------------------------------------------------- the PID file
NoStepFailed ==
  \A t \in 1..Len(trace) :
    Positions(trace[t], {"load failed", "start failed", "stop failed"}) = {}

\* The caller made start(), stop() and restart() calls only.
NoInitializeCall == Positions(trace[1], {"initialize()"}) = {}

\* The writePidFile calls from the clearPidFile before position c, or from the
\* construction of the process, up to position c.
WritesBefore(c) ==
  {w \in Positions(trace[1], {"writePidFile"}) :
     /\ w < c
     /\ \A x \in Positions(trace[1], {"clearPidFile"}) : x < c => x < w}

\* C13 as stated: over start(), stop() and restart() calls with no failing
\* step there is exactly one writePidFile between two consecutive
\* clearPidFile calls, and before the first.
C13_AsStated ==
  (NoStepFailed /\ NoInitializeCall) =>
    \A c \in Positions(trace[1], {"clearPidFile"}) : Cardinality(WritesBefore(c)) = 1

\* C13: over start(), stop() and restart() calls with no failing step, every
\* stop that is carried out is one of the caller's, every start() or
\* restart() that reaches the start phase calls writePidFile once, every stop
\* calls clearPidFile once, and a clearPidFile comes after at least one
\* writePidFile since the clearPidFile before it: one for each start() or
\* restart() that ran in between.
C13_PidFileOncePerPhase ==
  (NoStepFailed /\ NoInitializeCall) =>
    /\ OnlyTheCallerStops
    /\ \A k \in CallsMade :
         /\ Cardinality(Positions(CallRun(k), {"writePidFile"})) <= 1
         /\ Cardinality(Positions(CallRun(k), {"clearPidFile"})) <= 1
         /\ (trace[1][k].ev \in {"start()", "restart()"}
             /\ CallRun(k) # <<>> /\ CallRun(k)[Len(CallRun(k))].ev = "resolved")
              => Cardinality(Positions(CallRun(k), {"writePidFile"})) = 1
    /\ \A k \in Positions(trace[1], {"stopping process"}) :
         /\ Cardinality(Positions(StopRun(k), {"clearPidFile"})) <= 1
         /\ Positions(StopRun(k), {"Stopped"}) # {} =>
              Cardinality(Positions(StopRun(k), {"clearPidFile"})) = 1
    /\ \A c \in Positions(trace[1], {"clearPidFile"}) : WritesBefore(c) # {}

\* start(), restart(), stop(): write, clear, write, clear.
C13_Witness ==
  /\ NoStepFailed /\ NoInitializeCall
  /\ Cardinality(Positions(trace[1], {"clearPidFile"})) = 2
  /\ \A c \in Positions(trace[1], {"clearPidFile"}) : Cardinality(WritesBefore(c)) = 1

\* ------------------------------------------- fatalError called directly
\* The values a caller can hand to fatalError(errors, type): nothing, an
\* empty array, one error, an array of two errors.
NoErrors == [kind |-> "array", msgs |-> <<>>]
TwoErrors ==
  [kind |-> "array",
   msgs |-> <<[text |-> "first", about |-> "x"], [text |-> "second", about |-> "x"]>>]
FatalInputs == {NoErr, NoErrors, Err("single", "x"), TwoErrors}

FatalCallEv(errors) ==
  CASE errors = NoErr -> "fatalError()"
    [] errors = NoErrors -> "fatalError([])"
    [] IsArray(errors) -> "fatalError(errors)"
    [] OTHER -> "fatalError(error)"

\* await process.fatalError(errors, type), made by the caller.
CallFatalError(errors) ==
  /\ Idle
  /\ Becomes(Call(Log([State EXCEPT !.calls = @ + 1], 1, Ev(FatalCallEv(errors))),
                  1, "fatalError", "file", errors))

InitFatal ==
  /\ files \in [1..NumFiles -> {File("a", 1, 1, 1, "ok"), File("b", 2, 1, 2, "ok")}]
  /\ shifts \in BOOLEAN
  /\ Constructed

NextFatal ==
  \/ \E errors \in FatalInputs : CallFatalError(errors)
  \/ CallStart
  \/ \E t \in 1..Len(chains) : StepCompletes(t)
  \/ \E t \in 1..Len(chains) : StepRejects(t)
  \/ \E t \in 1..Len(chains) : StopSettles(t)
  \/ \E t \in 1..Len(chains) : StopTerminalEnds(t)
  \/ \E t \in 1..Len(chains) : Exit(t)

SpecFatal == InitFatal /\ [][NextFatal]_vars

\* C14: fatalError makes a one-element list of a single error, and called
\* with an empty list or with no error it returns at once: it logs nothing,
\* does not call stop() and the process does not terminate on its account.
C14_EmptyListIsNoOp ==
  /\ \A k \in Positions(trace[1], {"fatalError(error)"}) :
       /\ k + 2 <= Len(trace[1])
       /\ trace[1][k + 1].ev = "fatalError(file)"
       /\ trace[1][k + 2].ev = "emerg"
       /\ Len(trace[1][k + 2].msg) = 1
  /\ \A k \in Positions(trace[1], {"fatalError()", "fatalError([])"}) :
       /\ k + 1 <= Len(trace[1])
       /\ trace[1][k + 1].ev = "resolved"

\* ------------------------------------------ the stop() inside fatalError
\* C15: a stop step that rejects during the stop() fatalError awaits is not
\* escalated: fatalError is not invoked again on that account.
C15_StopInFatalErrorTolerant ==
  \A t \in 1..Len(trace) :
    \A j \in Positions(trace[t], FatalEvents) :
      \A k \in Positions(trace[t], {"stop failed"}) :
        j < k => \A x \in Positions(trace[t], FatalEvents) : x <= k

\* -------------------------------------------------- a failing stop step
\* The timers of the event loop elapse: the sleep(1000) of fatalError does
\* not last for ever.
SpecLive == Spec /\ WF_vars(\E t \in 1..Len(chains) : Exit(t))

StopFailed == \E t \in 1..Len(trace) : Positions(trace[t], {"stop failed"}) # {}

\* What follows a rejected stop step in the history of its chain.
StopFailureEscalates ==
  \A t \in 1..Len(trace) :
    \A k \in Positions(trace[t], {"stop failed"}) :
      /\ Len(trace[t]) >= k + 3
      /\ trace[t][k + 1] = Ev("fatalError(stop)")
      /\ trace[t][k + 2] = EvMsg("emerg", Err("step rejected", "stop").msgs)
      /\ trace[t][k + 3].ev = "stop ignored"
      /\ \A j \in (k + 1)..Len(trace[t]) :
           /\ trace[t][j].ev \notin {"stop", "stopped", "clearPidFile", "Stopped",
                                     "stopping process", "resolved", "rejected"}
           /\ trace[t][j].ev \notin CallEvents
           /\ trace[t][j].ev = "exit" => j > k + 3 /\ j = Len(trace[t])
      /\ exited => exitCode = 1

\* C16: when a stop step rejects, no later stop step and no stop closure
\* executes, fatalError logs the error as one of kind stop, the stop() it
\* awaits is ignored because shuttingDown is still true, and the process
\* ends with process.exit(1).
C16_StopFailureIsFatal ==
  /\ []StopFailureEscalates
  /\ StopFailed ~> (exited /\ exitCode = 1)

\* ------------------------------------------- initialize() called again
RECURSIVE LoadPhaseRun(_)
\* Every load step of the caller's initialize() resolves, one after the other.
LoadPhaseRun(m) ==
  IF SuspendedAt(m, 1, "asyncWaterfall", "job") /\ Top(m, 1).arg = "load"
  THEN LoadPhaseRun(Completes(m, 1))
  ELSE m

\* The state in which an initialize() made in state m settles.
Initialized(m) == LoadPhaseRun(EnteredFrom(m, "initialize", "initialize()"))

\* The initializer names of a phase list, in the order of the list.
NamesOf(m, phase) ==
  LET list == ListOf(m, phase)
  IN [i \in 1..Len(list) |-> m.files[list[i].idx].name]

ResolvedInitialized(m) ==
  /\ ~m.exited
  /\ m.chains[1] = <<>>
  /\ m.trace[1][Len(m.trace[1])].ev = "resolved"
  /\ m.initialized = True

\* C17: initialize() made again where an initialize() has just resolved and
\* left the process initialized builds the same registry and, name by name,
\* the same three lists.
C17_RebuildIsIdempotent ==
  (~exited /\ chains[1] = <<>>) =>
    LET first == Initialized(State)
        second == Initialized(first)
    IN (ResolvedInitialized(first) /\ ResolvedInitialized(second)) =>
         /\ second.initializers = first.initializers
         /\ \A phase \in Phases : NamesOf(second, phase) = NamesOf(first, phase)
         /\ second.builds = first.builds + 1

\* initialize() twice: the second build logged a collision for every
\* instance it made, the registry is that of the first build, the start
\* list is made of the steps of the second.
C17_Witness ==
  /\ ~exited /\ chains[1] = <<>>
  /\ builds = 2
  /\ Cardinality(Positions(trace[1], {"initialize()"})) = 2
  /\ Cardinality(Positions(trace[1], {"resolved"})) = 2
  /\ initialized = True
  /\ DOMAIN initializers = {"a", "b"}
  /\ \A n \in DOMAIN initializers : initializers[n].gen = 1
  /\ startInitializers # <<>>
  /\ \A i \in 1..Len(startInitializers) : startInitializers[i].gen = 2
  /\ Cardinality({k \in Positions(trace[1], {"warning"}) : trace[1][k].gen = 2}) = 2

\* ------------------------------------- the steps of a colliding instance
StepsIn(list, step) == {i \in 1..Len(list) : list[i] = step}

\* A list as the build left it: a consuming waterfall that has begun it holds
\* its first job.
PhaseAsBuilt(phase) ==
  IF shifts /\ SuspendedAt(State, 1, "asyncWaterfall", "job") /\ Top(State, 1).arg = phase
  THEN <<Top(State, 1).job>> \o ListOf(State, phase)
  ELSE ListOf(State, phase)

\* What a build that gets as far as lines 232-240 leaves in the three lists.
StepsBuiltForEveryInstance ==
  (builds' # builds /\ \A j \in 1..Len(files) : files[j].kind # "throws") =>
    \A phase \in Phases :
      /\ \A idx \in 1..Len(files) :
           Instantiated(idx) =>
             Cardinality(StepsIn(PhaseAsBuilt(phase)', InitStep(builds', idx))) =
               IF PriorityIn(phase, idx) > 0 THEN 1 ELSE 0
      /\ \A i \in 1..Len(PhaseAsBuilt(phase)') :
           PhaseAsBuilt(phase)'[i].k = "initializer" =>
             /\ PhaseAsBuilt(phase)'[i].gen = builds'
             /\ Instantiated(PhaseAsBuilt(phase)'[i].idx)

\* C18: every instance a build constructs, registered or colliding, has its
\* step in each list for which its own priority is positive; the lists hold
\* no other step of an initializer.
C18_StepsOfCollidingInstances == [][StepsBuiltForEveryInstance]_vars

\* The start list holds a step of an instance that is not the one the
\* registry keeps under its name.
C18_Witness ==
  \E i \in 1..Len(startInitializers) :
    LET step == startInitializers[i]
    IN /\ step.k = "initializer"
       /\ files[step.idx].kind = "ok"
       /\ files[step.idx].name \in DOMAIN initializers
       /\ initializers[files[step.idx].name] # Instance(step.gen, step.idx)

\* ------------------------------------------- the closures of the lists
\* The execution of a start or stop list that began at position k of the
\* history of chain t: start() has just written the PID file, stop() has
\* just logged that it stops the process.
PhaseBegins(t) == Positions(trace[t], {"writePidFile", "stopping process"})

PhaseRun(t, k) ==
  LET later == {j \in PhaseBegins(t) \cup Positions(trace[t], CallEvents) : j > k}
      last == IF later = {} THEN Len(trace[t])
              ELSE (CHOOSE j \in later : \A i \in later : j <= i) - 1
  IN SubSeq(trace[t], k + 1, last)

ClosureEvents(t, k) ==
  IF trace[t][k].ev = "writePidFile" THEN {"Started", "Restarted"} ELSE {"Stopped"}

StepEvents(t, k) ==
  IF trace[t][k].ev = "writePidFile" THEN {"start"} ELSE {"stop"}

\* C19: a start or stop list that is executed holds one closure, and holds
\* it last: its execution runs the closure once, begins no step after it,
\* and does not come to its end without it.
C19_OneTerminalStepLast ==
  \A t \in 1..Len(trace) :
    \A k \in PhaseBegins(t) :
      LET run == PhaseRun(t, k)
          closures == Positions(run, ClosureEvents(t, k))
      IN /\ Cardinality(closures) <= 1
         /\ \A c \in closures : \A j \in Positions(run, StepEvents(t, k)) : j < c
         /\ Positions(run, {"resolved"}) # {} => closures # {}

\* ------------------------------------------------------------ the flags
\* C20: a running process is initialized, and is not shutting down.
C20_FlagsConsistent ==
  /\ running = True => initialized = True
  /\ ~(running = True /\ shuttingDown = True)

====
